---------------------------- MODULE Spec2Model ----------------------------
(***************************************************************************)
(* State-machine model of the consumer of src/src/consumer.c:              *)
(* consumer_argparse (the -o offset option), consume_cb and consumer_main. *)
(* The Kafka client library is the environment: it answers the metadata    *)
(* query, starts and stops partition streams, and enqueues messages of the *)
(* started partitions into the shared queue.                               *)
(***************************************************************************)
EXTENDS Integers, Sequences, FiniteSets, TLC

VARIABLES
  pc,           \* position of consumer_main
  optarg,       \* argument of the -o option, a sequence of characters
  conf,         \* the global configuration struct `conf`
  stats,        \* the global `stats`
  metadata,     \* answer of the broker to rd_kafka_metadata
  topic_msgs,   \* key/payload pairs the topic holds
  next_offset,  \* per partition: offset of the next message of its stream
  first_offset, \* per partition: offset of the first message of its stream
  part_eof,     \* partition's at EOF state array
  part_eof_cnt, \* number of partitions that has reached EOF
  part_eof_thres, \* threshold level before exiting
  i,            \* loop index of consumer_main
  opened,       \* partitions started with rd_kafka_consume_start_queue, in order
  start_calls,  \* history: arguments of each rd_kafka_consume_start_queue that succeeded
  stopped,      \* partitions whose stream was stopped, in order
  exit_status,  \* exit status of the process, "none" while it runs
  rkqu_state,   \* shared queue handle: "none", "live", "destroyed"
  rkqu,         \* messages waiting in the shared queue
  batch,        \* messages the running rd_kafka_consume_callback_queue serves
  nsent,        \* messages enqueued so far
  out,          \* bytes written to stdout
  emitted,      \* history: <<partition, offset>> of each record written whole
  reported,     \* history: partitions whose PartitionEnd consume_cb handled while running
  eof_repeated, \* history: a PartitionEnd was handled for a partition already reported
  sink_refused  \* history: the sink refused a write of the last message written

vars == <<pc, optarg, conf, stats, metadata, topic_msgs, next_offset,
          first_offset, start_calls, part_eof,
          part_eof_cnt, part_eof_thres, i, opened, stopped, exit_status,
          rkqu_state, rkqu, batch, nsent, out, emitted, reported, eof_repeated,
          sink_refused>>

(***************************************************************************)
(* Bounds of the model.                                                    *)
(***************************************************************************)
MaxParts == 2
MaxItems == 3
MaxCount == 2
MaxArgLen == 3

(***************************************************************************)
(* Constants of the program and of the client library's header.            *)
(***************************************************************************)
RD_KAFKA_PARTITION_UA == -1
RD_KAFKA_OFFSET_BEGINNING == -2
RD_KAFKA_OFFSET_END == -1
RD_KAFKA_OFFSET_STORED == -1000
RD_KAFKA_OFFSET_TAIL_BASE == -2000

RD_KAFKA_OFFSET_TAIL(cnt) == RD_KAFKA_OFFSET_TAIL_BASE - cnt

CONF_F_OFFSET == "CONF_F_OFFSET"
CONF_F_KEY_DELIM == "CONF_F_KEY_DELIM"

NO_ERROR == "NO_ERROR"
PARTITION_EOF == "PARTITION_EOF"
OTHER_ERROR == "OTHER_ERROR"

Range(s) == {s[k] : k \in 1..Len(s)}

(***************************************************************************)
(* consumer_argparse, case 'o'.                                            *)
(***************************************************************************)
Digits == <<"0", "1", "2", "3", "4", "5", "6", "7", "8", "9">>

DigitVal(c) == (CHOOSE k \in 1..10 : Digits[k] = c) - 1

IsDigit(c) == c \in Range(Digits)

RECURSIVE SkipSpace(_)
SkipSpace(s) ==
  IF s # <<>> /\ Head(s) = " " THEN SkipSpace(Tail(s)) ELSE s

RECURSIVE ParseDigits(_, _)
ParseDigits(s, acc) ==
  IF s # <<>> /\ IsDigit(Head(s))
  THEN ParseDigits(Tail(s), acc * 10 + DigitVal(Head(s)))
  ELSE acc

\* strtoll(s, NULL, 10): leading white space, an optional sign, then the
\* longest run of digits; 0 when there is none.  The strings of the model
\* are too short to leave the range of long long.
strtoll(s) ==
  LET t == SkipSpace(s)
      signed == t # <<>> /\ Head(t) \in {"-", "+"}
      u == IF signed THEN Tail(t) ELSE t
      v == ParseDigits(u, 0)
  IN IF signed /\ Head(t) = "-" THEN 0 - v ELSE v

STR_END == <<"e", "n", "d">>
STR_BEGINNING == <<"b", "e", "g", "i", "n", "n", "i", "n", "g">>
STR_STORED == <<"s", "t", "o", "r", "e", "d">>

ParseOffset(arg) ==
  IF arg = STR_END THEN RD_KAFKA_OFFSET_END
  ELSE IF arg = STR_BEGINNING THEN RD_KAFKA_OFFSET_BEGINNING
  ELSE IF arg = STR_STORED THEN RD_KAFKA_OFFSET_STORED
  ELSE LET v == strtoll(arg)
       IN IF v < 0 THEN RD_KAFKA_OFFSET_TAIL(0 - v) ELSE v

consumer_argparse ==
  /\ pc = "argparse"
  /\ conf' = [conf EXCEPT !.offset = ParseOffset(optarg)]
  /\ pc' = "metadata"
  /\ UNCHANGED <<optarg, stats, metadata, topic_msgs, first_offset, start_calls, next_offset, part_eof,
                 part_eof_cnt, part_eof_thres, i, opened, stopped, exit_status,
                 rkqu_state, rkqu, batch, nsent, out, emitted, reported,
                 eof_repeated, sink_refused>>

(***************************************************************************)
(* FATAL: the process ends with a non-zero exit code after the partition   *)
(* streams opened so far are closed.  UNCHANGED of the rest is the         *)
(* caller's.                                                               *)
(***************************************************************************)
NotStopped == SelectSeq(opened, LAMBDA p : p \notin Range(stopped))

\* Variant: the process exits at once and leaves the streams open
FATAL_NoClose ==
  /\ pc' = "exited"
  /\ exit_status' = 1
  /\ stopped' = stopped

FATAL ==
  /\ pc' = "exited"
  /\ exit_status' = 1
  /\ stopped' = stopped \o NotStopped

(***************************************************************************)
(* External shutdown: a signal flips conf.run.                             *)
(***************************************************************************)
shutdown_signal ==
  /\ pc \notin {"done", "exited"}
  /\ conf.run
  /\ conf' = [conf EXCEPT !.run = FALSE]
  /\ UNCHANGED <<pc, optarg, stats, metadata, topic_msgs, first_offset, start_calls, next_offset, part_eof,
                 part_eof_cnt, part_eof_thres, i, opened, stopped, exit_status,
                 rkqu_state, rkqu, batch, nsent, out, emitted, reported,
                 eof_repeated, sink_refused>>

(***************************************************************************)
(* consumer_main: metadata query, error handling, EOF tracking set-up and  *)
(* creation of the shared queue.                                           *)
(***************************************************************************)
partition_cnt == Len(metadata.partitions)

PartitionId(k) == metadata.partitions[k + 1].id

\* Variant: the threshold is the partition count whatever was selected
EofThreshold_Count(partition, cnt) == cnt

\* Threshold level (partitions at EOF) before exiting
EofThreshold(partition, cnt) ==
  IF partition # RD_KAFKA_PARTITION_UA THEN 1 ELSE cnt

\* Variant: a topic without partitions is let through
MetadataUnusable_NoPartitionTest ==
  \/ metadata.err
  \/ metadata.topic_cnt = 0
  \/ metadata.topic_err

MetadataUnusable ==
  \/ metadata.err
  \/ metadata.topic_cnt = 0
  \/ metadata.topic_err
  \/ partition_cnt = 0

query_metadata ==
  /\ pc = "metadata"
  /\ IF MetadataUnusable
     THEN /\ FATAL
          /\ UNCHANGED <<part_eof, part_eof_thres, rkqu_state, i>>
     ELSE /\ IF conf.exit_eof
             THEN /\ part_eof' = [k \in 0..(partition_cnt - 1) |-> 0]
                  /\ part_eof_thres' = EofThreshold(conf.partition, partition_cnt)
             ELSE UNCHANGED <<part_eof, part_eof_thres>>
          /\ rkqu_state' = "live"
          /\ i' = 0
          /\ pc' = "start"
          /\ UNCHANGED <<stopped, exit_status>>
  /\ UNCHANGED <<optarg, conf, stats, metadata, topic_msgs, first_offset, start_calls, next_offset,
                 part_eof_cnt, opened, rkqu, batch, nsent, out, emitted,
                 reported, eof_repeated, sink_refused>>

(***************************************************************************)
(* consumer_main: one iteration of the loop that starts the consumers,     *)
(* and the test that follows the loop.                                     *)
(***************************************************************************)
\* Variant: no partition is skipped
StartUnwanted_None(partition) == FALSE

\* If -p <part> was specified: skip unwanted partitions
StartUnwanted(partition) ==
  conf.partition # RD_KAFKA_PARTITION_UA /\ conf.partition # partition

StartBreaks == conf.partition # RD_KAFKA_PARTITION_UA

\* rd_kafka_consume_start_queue(conf.rkt, partition, conf.offset, rkqu)
StartCall(partition, offset) ==
  [partition |-> partition, offset |-> offset, queue |-> rkqu_state]

consume_start ==
  /\ pc = "start"
  /\ i < partition_cnt
  /\ IF StartUnwanted(PartitionId(i))
     THEN /\ i' = i + 1
          /\ UNCHANGED <<pc, opened, start_calls, stopped, exit_status>>
     ELSE \E rc \in {0, -1} :
            IF rc = -1
            THEN /\ FATAL
                 /\ UNCHANGED <<i, opened, start_calls>>
            ELSE /\ opened' = Append(opened, PartitionId(i))
                 /\ start_calls' = Append(start_calls,
                                          StartCall(PartitionId(i), conf.offset))
                 /\ IF StartBreaks
                    THEN pc' = "started" /\ i' = i
                    ELSE pc' = pc /\ i' = i + 1
                 /\ UNCHANGED <<stopped, exit_status>>
  /\ UNCHANGED <<optarg, conf, stats, metadata, topic_msgs, first_offset, next_offset,
                 part_eof, part_eof_cnt, part_eof_thres, rkqu_state, rkqu,
                 batch, nsent, out, emitted, reported, eof_repeated, sink_refused>>

consume_start_end ==
  /\ pc = "start"
  /\ i = partition_cnt
  /\ pc' = "started"
  /\ UNCHANGED <<optarg, conf, stats, metadata, topic_msgs, first_offset, start_calls, next_offset,
                 part_eof, part_eof_cnt, part_eof_thres, i, opened, stopped,
                 exit_status, rkqu_state, rkqu, batch, nsent, out, emitted,
                 reported, eof_repeated, sink_refused>>

check_partition ==
  /\ pc = "started"
  /\ IF conf.partition # RD_KAFKA_PARTITION_UA /\ i = partition_cnt
     THEN FATAL
     ELSE pc' = "loop" /\ UNCHANGED <<stopped, exit_status>>
  /\ UNCHANGED <<optarg, conf, stats, metadata, topic_msgs, first_offset, start_calls, next_offset,
                 part_eof, part_eof_cnt, part_eof_thres, i, opened, rkqu_state,
                 rkqu, batch, nsent, out, emitted, reported, eof_repeated, sink_refused>>

(***************************************************************************)
(* The client library: a started partition's stream enqueues a message,    *)
(* an end-of-partition event or an error into the shared queue.  The       *)
(* program reads the queue only in rd_kafka_consume_callback_queue, so a   *)
(* message that arrives while the program is elsewhere is modelled as      *)
(* arriving before the next call: the call finds the same queue.           *)
(***************************************************************************)
Streaming == Range(opened) \ Range(stopped)

Message(err, partition, offset, key, payload) ==
  [err |-> err, partition |-> partition, offset |-> offset,
   key |-> key, payload |-> payload]

enqueue ==
  /\ pc = "loop"
  /\ conf.run
  /\ nsent < MaxItems
  /\ \E p \in Streaming :
       \/ \E m \in topic_msgs :
            /\ rkqu' = Append(rkqu, Message(NO_ERROR, p, next_offset[p],
                                            m.key, m.payload))
            /\ next_offset' = [next_offset EXCEPT ![p] = @ + 1]
       \/ /\ rkqu' = Append(rkqu, Message(PARTITION_EOF, p, next_offset[p],
                                          <<>>, <<>>))
          /\ UNCHANGED next_offset
       \/ /\ rkqu' = Append(rkqu, Message(OTHER_ERROR, p, next_offset[p],
                                          <<>>, <<>>))
          /\ UNCHANGED next_offset
  /\ nsent' = nsent + 1
  /\ UNCHANGED <<pc, optarg, conf, stats, metadata, topic_msgs, first_offset, start_calls, part_eof,
                 part_eof_cnt, part_eof_thres, i, opened, stopped, exit_status,
                 rkqu_state, batch, out, emitted, reported, eof_repeated, sink_refused>>

(***************************************************************************)
(* consumer_main: while (conf.run) rd_kafka_consume_callback_queue(...).   *)
(* The call takes what the queue holds (nothing, after the timeout) and    *)
(* calls consume_cb for each message in order.                             *)
(***************************************************************************)
RECURSIVE Reverse(_)
Reverse(q) == IF q = <<>> THEN <<>> ELSE Append(Reverse(Tail(q)), Head(q))

\* Variant: the messages taken from the queue are served last first
consume_poll_lifo ==
  /\ pc = "loop"
  /\ conf.run
  /\ batch' = Reverse(rkqu)
  /\ rkqu' = <<>>
  /\ pc' = "serve"
  /\ UNCHANGED <<optarg, conf, stats, metadata, topic_msgs, first_offset, start_calls,
                 next_offset, part_eof, part_eof_cnt, part_eof_thres, i,
                 opened, stopped, exit_status, rkqu_state, nsent, out, emitted,
                 reported, eof_repeated, sink_refused>>

consume_poll ==
  /\ pc = "loop"
  /\ conf.run
  /\ batch' = rkqu
  /\ rkqu' = <<>>
  /\ pc' = "serve"
  /\ UNCHANGED <<optarg, conf, stats, metadata, topic_msgs, first_offset, start_calls, next_offset,
                 part_eof, part_eof_cnt, part_eof_thres, i, opened, stopped,
                 exit_status, rkqu_state, nsent, out, emitted, reported,
                 eof_repeated, sink_refused>>

consume_poll_return ==
  /\ pc = "serve"
  /\ batch = <<>>
  /\ pc' = "loop"
  /\ UNCHANGED <<optarg, conf, stats, metadata, topic_msgs, first_offset, start_calls, next_offset,
                 part_eof, part_eof_cnt, part_eof_thres, i, opened, stopped,
                 exit_status, rkqu_state, rkqu, batch, nsent, out, emitted,
                 reported, eof_repeated, sink_refused>>

consume_loop_exit ==
  /\ pc = "loop"
  /\ ~conf.run
  /\ pc' = "stop"
  /\ i' = 0
  /\ UNCHANGED <<optarg, conf, stats, metadata, topic_msgs, first_offset, start_calls, next_offset,
                 part_eof, part_eof_cnt, part_eof_thres, opened, stopped,
                 exit_status, rkqu_state, rkqu, batch, nsent, out, emitted,
                 reported, eof_repeated, sink_refused>>

(***************************************************************************)
(* consume_cb: the output of one message.  Bytes are numbers; a write the  *)
(* sink refuses adds nothing to the output.                                *)
(***************************************************************************)
RECURSIVE Decimal(_)
\* "%"PRId64 of a non-negative offset
Decimal(n) ==
  IF n < 10 THEN <<48 + n>> ELSE Decimal(n \div 10) \o <<48 + (n % 10)>>

RECURSIVE CString(_)
\* "%.*s" with the key's length as precision: the bytes before the first NUL
CString(bytes) ==
  IF bytes = <<>> \/ Head(bytes) = 0
  THEN <<>>
  ELSE <<Head(bytes)>> \o CString(Tail(bytes))

\* fprintf(fp, "%"PRId64"%c", rkmessage->offset, conf.key_delim)
OffsetField(m) == Decimal(m.offset) \o <<conf.key_delim>>

\* fprintf(fp, "%.*s%c", (int)rkmessage->key_len, rkmessage->key, conf.key_delim)
KeyField(m) == CString(m.key) \o <<conf.key_delim>>

\* fwrite(ptr, size, 1, fp): the number of items written, 0 when size is 0
fwrite(size, accepted) == IF size > 0 /\ accepted THEN 1 ELSE 0

\* What the sink does with the (up to four) writes of one message
SinkOutcomes ==
  [offset : IF CONF_F_OFFSET \in conf.flags THEN BOOLEAN ELSE {TRUE},
   key : IF CONF_F_KEY_DELIM \in conf.flags THEN BOOLEAN ELSE {TRUE},
   payload : BOOLEAN,
   delim : BOOLEAN]

\* Lines 222-236: the bytes written and whether FATAL is reached
WriteMessage(m, w) ==
  LET o1 == IF CONF_F_OFFSET \in conf.flags /\ w.offset
            THEN OffsetField(m) ELSE <<>>
      o2 == IF CONF_F_KEY_DELIM \in conf.flags /\ w.key
            THEN KeyField(m) ELSE <<>>
      payload_ok == fwrite(Len(m.payload), w.payload) = 1
      o3 == IF payload_ok THEN m.payload ELSE <<>>
      delim_ok == payload_ok /\ fwrite(1, w.delim) = 1
      o4 == IF delim_ok THEN <<conf.delim>> ELSE <<>>
  IN [bytes |-> o1 \o o2 \o o3 \o o4,
      write_error |-> ~(payload_ok /\ delim_ok),
      refused |-> \/ CONF_F_OFFSET \in conf.flags /\ ~w.offset
                  \/ CONF_F_KEY_DELIM \in conf.flags /\ ~w.key
                  \/ Len(m.payload) > 0 /\ ~w.payload
                  \/ payload_ok /\ ~w.delim]

\* Variant: every PartitionEnd counts
EofIsNew_Always(m) == TRUE

\* Variant: no PartitionEnd counts
EofIsNew_Never(m) == FALSE

\* if (!part_eof[rkmessage->partition])
EofIsNew(m) == part_eof[m.partition] = 0

\* Variant: the run stops one partition after the threshold
EofThresholdReached_Above(cnt) == cnt > part_eof_thres

\* if (part_eof_cnt >= part_eof_thres)
EofThresholdReached(cnt) == cnt >= part_eof_thres

\* Variant: the limit is found reached one record late
CountReached_Late(rx) == rx = conf.msg_cnt + 1

\* if (++stats.rx == conf.msg_cnt)
CountReached(rx) == rx = conf.msg_cnt

\* Variant: a message served after the stop is still counted
cb_not_running_counts(m) ==
  /\ ~conf.run
  /\ batch' = Tail(batch)
  /\ stats' = [stats EXCEPT !.rx = @ + 1]
  /\ UNCHANGED <<pc, conf, part_eof, part_eof_cnt, stopped, exit_status,
                 out, emitted, reported, eof_repeated, sink_refused>>

cb_not_running(m) ==
  /\ ~conf.run
  /\ batch' = Tail(batch)
  /\ UNCHANGED <<pc, conf, stats, part_eof, part_eof_cnt, stopped, exit_status,
                 out, emitted, reported, eof_repeated, sink_refused>>

\* Variant: a PartitionEnd ends the run whether or not exit_eof is set
cb_partition_eof_exits(m) ==
  /\ conf.run
  /\ m.err = PARTITION_EOF
  /\ conf' = [conf EXCEPT !.run = FALSE]
  /\ batch' = Tail(batch)
  /\ reported' = reported \cup {m.partition}
  /\ eof_repeated' = (eof_repeated \/ m.partition \in reported)
  /\ UNCHANGED <<pc, stats, part_eof, part_eof_cnt, stopped, exit_status, out,
                 emitted, sink_refused>>

\* Variant: a PartitionEnd of a partition already at EOF resets its state
cb_partition_eof_toggle(m) ==
  /\ conf.run
  /\ m.err = PARTITION_EOF
  /\ IF conf.exit_eof
     THEN IF part_eof[m.partition] = 0
          THEN /\ part_eof' = [part_eof EXCEPT ![m.partition] = 1]
               /\ part_eof_cnt' = part_eof_cnt + 1
               /\ IF part_eof_cnt + 1 >= part_eof_thres
                  THEN conf' = [conf EXCEPT !.run = FALSE]
                  ELSE UNCHANGED conf
          ELSE /\ part_eof' = [part_eof EXCEPT ![m.partition] = 0]
               /\ part_eof_cnt' = part_eof_cnt - 1
               /\ UNCHANGED conf
     ELSE UNCHANGED <<part_eof, part_eof_cnt, conf>>
  /\ batch' = Tail(batch)
  /\ reported' = reported \cup {m.partition}
  /\ eof_repeated' = (eof_repeated \/ m.partition \in reported)
  /\ UNCHANGED <<pc, stats, stopped, exit_status, out, emitted, sink_refused>>

cb_partition_eof(m) ==
  /\ conf.run
  /\ m.err = PARTITION_EOF
  /\ IF conf.exit_eof /\ EofIsNew(m)
     THEN /\ part_eof' = [part_eof EXCEPT ![m.partition] = 1]
          /\ part_eof_cnt' = part_eof_cnt + 1
          /\ IF EofThresholdReached(part_eof_cnt + 1)
             THEN conf' = [conf EXCEPT !.run = FALSE]
             ELSE UNCHANGED conf
     ELSE UNCHANGED <<part_eof, part_eof_cnt, conf>>
  /\ batch' = Tail(batch)
  /\ reported' = reported \cup {m.partition}
  /\ eof_repeated' = (eof_repeated \/ m.partition \in reported)
  /\ UNCHANGED <<pc, stats, stopped, exit_status, out, emitted, sink_refused>>

\* Variant: a message with an error is dropped and the run goes on
cb_error_skip(m) ==
  /\ conf.run
  /\ m.err \notin {NO_ERROR, PARTITION_EOF}
  /\ batch' = Tail(batch)
  /\ UNCHANGED <<pc, conf, stats, part_eof, part_eof_cnt, stopped, exit_status,
                 out, emitted, reported, eof_repeated, sink_refused>>

cb_error(m) ==
  /\ conf.run
  /\ m.err \notin {NO_ERROR, PARTITION_EOF}
  /\ FATAL
  /\ UNCHANGED <<conf, stats, part_eof, part_eof_cnt, batch, out, emitted,
                 reported, eof_repeated, sink_refused>>

cb_data(m) ==
  /\ conf.run
  /\ m.err = NO_ERROR
  /\ \E w \in SinkOutcomes :
       LET r == WriteMessage(m, w)
       IN /\ out' = out \o r.bytes
          /\ sink_refused' = r.refused
          /\ IF r.write_error
             THEN /\ FATAL
                  /\ UNCHANGED <<conf, stats, batch, emitted>>
             ELSE /\ stats' = [stats EXCEPT !.rx = @ + 1]
                  /\ IF CountReached(stats.rx + 1)
                     THEN conf' = [conf EXCEPT !.run = FALSE]
                     ELSE UNCHANGED conf
                  /\ batch' = Tail(batch)
                  /\ emitted' = Append(emitted,
                                  [partition |-> m.partition,
                                   offset |-> m.offset,
                                   whole |-> ~r.refused,
                                   after_eof |-> m.partition \in reported])
                  /\ UNCHANGED <<pc, stopped, exit_status>>
  /\ UNCHANGED <<part_eof, part_eof_cnt, reported, eof_repeated>>

consume_cb ==
  /\ pc = "serve"
  /\ batch # <<>>
  /\ LET m == Head(batch)
     IN \/ cb_not_running(m)
        \/ cb_partition_eof(m)
        \/ cb_error(m)
        \/ cb_data(m)
  /\ UNCHANGED <<optarg, metadata, topic_msgs, first_offset, start_calls, next_offset, part_eof_thres, i,
                 opened, rkqu_state, rkqu, nsent>>

(***************************************************************************)
(* consumer_main: stop consuming, destroy the shared queue, return.        *)
(***************************************************************************)
\* Variant: the test for "no partition selected" is left out
StopUnwanted_NoUA(partition) == conf.partition # partition

\* If -p <part> was specified: skip unwanted partitions
StopUnwanted(partition) ==
  conf.partition # RD_KAFKA_PARTITION_UA /\ conf.partition # partition

consume_stop ==
  /\ pc = "stop"
  /\ i < partition_cnt
  /\ IF StopUnwanted(PartitionId(i))
     THEN UNCHANGED stopped
     ELSE stopped' = Append(stopped, PartitionId(i))
  /\ i' = i + 1
  /\ UNCHANGED <<pc, optarg, conf, stats, metadata, topic_msgs, first_offset, start_calls, next_offset,
                 part_eof, part_eof_cnt, part_eof_thres, opened, exit_status,
                 rkqu_state, rkqu, batch, nsent, out, emitted, reported,
                 eof_repeated, sink_refused>>

queue_destroy ==
  /\ pc = "stop"
  /\ i = partition_cnt
  /\ rkqu_state' = "destroyed"
  /\ pc' = "done"
  /\ exit_status' = conf.exitcode
  /\ UNCHANGED <<optarg, conf, stats, metadata, topic_msgs, first_offset, start_calls, next_offset,
                 part_eof, part_eof_cnt, part_eof_thres, i, opened, stopped,
                 rkqu, batch, nsent, out, emitted, reported, eof_repeated, sink_refused>>

(***************************************************************************)
(* Initial states: the command line and the broker's topic.                *)
(***************************************************************************)
\* The partitions of a topic of n partitions are 0..n-1.  The broker lists
\* them in increasing or in decreasing order; in one more list the first
\* partition carries a partition-level error.
PartitionLists ==
  UNION {{[k \in 1..n |-> [id |-> k - 1, err |-> FALSE]],
          [k \in 1..n |-> [id |-> n - k, err |-> FALSE]],
          [k \in 1..n |-> [id |-> k - 1, err |-> (k = 1)]]} :
           n \in 1..MaxParts}

GoodMetadata ==
  {[err |-> FALSE, topic_cnt |-> 1, topic_err |-> FALSE, partitions |-> ps] :
     ps \in PartitionLists}

BadMetadata ==
  {[err |-> TRUE, topic_cnt |-> 0, topic_err |-> FALSE, partitions |-> <<>>],
   [err |-> FALSE, topic_cnt |-> 0, topic_err |-> FALSE, partitions |-> <<>>],
   [err |-> FALSE, topic_cnt |-> 1, topic_err |-> TRUE, partitions |-> <<>>],
   [err |-> FALSE, topic_cnt |-> 1, topic_err |-> FALSE, partitions |-> <<>>]}

MSG_PLAIN == [key |-> <<107>>, payload |-> <<112>>]
MSG_BINARY == [key |-> <<107, 0, 120>>, payload |-> <<112, 0>>]
MSG_EMPTY == [key |-> <<>>, payload |-> <<>>]

InitProgram ==
  /\ pc = "argparse"
  /\ stats = [rx |-> 0]
  /\ part_eof = <<>>
  /\ part_eof_cnt = 0
  /\ part_eof_thres = 0
  /\ i = 0
  /\ opened = <<>>
  /\ start_calls = <<>>
  /\ stopped = <<>>
  /\ exit_status = "none"
  /\ rkqu_state = "none"
  /\ rkqu = <<>>
  /\ batch = <<>>
  /\ nsent = 0
  /\ out = <<>>
  /\ emitted = <<>>
  /\ reported = {}
  /\ eof_repeated = FALSE
  /\ sink_refused = FALSE

Conf(partition, exit_eof, msg_cnt, flags) ==
  [partition |-> partition, exit_eof |-> exit_eof, msg_cnt |-> msg_cnt,
   flags |-> flags, key_delim |-> 9, delim |-> 10,
   offset |-> RD_KAFKA_OFFSET_END, run |-> TRUE, exitcode |-> 0]

\* Runs that differ in the partition selection, the exit conditions and the
\* topic's layout; nothing but the payload is printed.
InitControl ==
  /\ InitProgram
  /\ optarg = STR_END
  /\ \E partition \in {RD_KAFKA_PARTITION_UA} \cup 0..MaxParts,
        exit_eof \in BOOLEAN, msg_cnt \in 0..MaxCount :
       conf = Conf(partition, exit_eof, msg_cnt, {})
  /\ metadata \in GoodMetadata \cup BadMetadata
  /\ topic_msgs = {MSG_PLAIN}
  /\ next_offset = [p \in 0..(MaxParts - 1) |-> 9]
  /\ first_offset = next_offset

\* Runs that differ in the output options and the messages' bytes.
InitFormat ==
  /\ InitProgram
  /\ optarg = STR_END
  /\ \E flags \in SUBSET {CONF_F_OFFSET, CONF_F_KEY_DELIM} :
       conf = Conf(RD_KAFKA_PARTITION_UA, TRUE, 0, flags)
  /\ metadata = [err |-> FALSE, topic_cnt |-> 1, topic_err |-> FALSE,
                 partitions |-> <<[id |-> 0, err |-> FALSE]>>]
  /\ topic_msgs = {MSG_PLAIN, MSG_BINARY, MSG_EMPTY}
  /\ \E base \in {0, 9} : next_offset = [p \in 0..(MaxParts - 1) |-> base]
  /\ first_offset = next_offset

Init == InitControl \/ InitFormat

Next ==
  \/ consumer_argparse
  \/ query_metadata
  \/ consume_start
  \/ consume_start_end
  \/ check_partition
  \/ enqueue
  \/ consume_poll
  \/ consume_cb
  \/ consume_poll_return
  \/ consume_loop_exit
  \/ consume_stop
  \/ queue_destroy
  \/ shutdown_signal

Spec == Init /\ [][Next]_vars

(***************************************************************************)
(* Steps and sets the properties speak of.                                 *)
(***************************************************************************)
\* The step is one call of consume_cb, for the message Head(batch)
CbStep ==
  /\ pc = "serve"
  /\ batch # <<>>
  /\ (batch' = Tail(batch) \/ pc' = "exited")

PartitionSet == {metadata.partitions[k].id : k \in 1..partition_cnt}

\* consume_cb handles a PartitionEnd while the run is on
EofStep == CbStep /\ conf.run /\ Head(batch).err = PARTITION_EOF

\* consume_cb handles a Data record while the run is on
DataStep == CbStep /\ conf.run /\ Head(batch).err = NO_ERROR

(***************************************************************************)
(* C1.  No partition filter, exit-on-EOF enabled: a step that handles a    *)
(* PartitionEnd stops the run if and only if the partition of that         *)
(* PartitionEnd is the only one of the PartitionSet that had not reported  *)
(* PartitionEnd before; a repeated PartitionEnd never counts twice.        *)
(***************************************************************************)
C1_StopsAtLastPartitionEnd ==
  [][(EofStep /\ conf.exit_eof /\ conf.partition = RD_KAFKA_PARTITION_UA)
       => (~conf'.run <=>
             PartitionSet \ reported = {Head(batch).partition})]_vars

\* Two or more partitions, a repeated PartitionEnd was handled, and the run
\* was stopped by the threshold
C1_Witness ==
  /\ conf.partition = RD_KAFKA_PARTITION_UA
  /\ conf.exit_eof
  /\ partition_cnt >= 2
  /\ pc = "serve"
  /\ eof_repeated
  /\ reported = PartitionSet
  /\ part_eof_cnt = part_eof_thres
  /\ ~conf.run

(***************************************************************************)
(* C2.  A single partition selected, exit-on-EOF enabled: the threshold is *)
(* 1 and the first PartitionEnd handled for the selected partition stops   *)
(* the run, with no PartitionEnd of another partition reported.            *)
(***************************************************************************)
C2_SinglePartitionStopsAtFirstEnd ==
  [][(EofStep /\ conf.exit_eof /\ conf.partition # RD_KAFKA_PARTITION_UA)
       => /\ part_eof_thres = 1
          /\ Head(batch).partition = conf.partition
          /\ reported = {}
          /\ ~conf'.run]_vars

\* Partition 1 of a topic of several partitions was selected and its
\* PartitionEnd stopped the run
C2_Witness ==
  /\ conf.partition = 1
  /\ conf.exit_eof
  /\ partition_cnt >= 2
  /\ pc = "serve"
  /\ reported = {1}
  /\ part_eof_cnt = 1
  /\ ~conf.run

(***************************************************************************)
(* C3.  With a positive message-count limit N: a step that emits a Data    *)
(* record stops the run if and only if the record is the N-th emitted (so  *)
(* the test follows the emit and the limit never stops the run earlier);   *)
(* once the run is stopped no byte is written and no record emitted, also  *)
(* not for the records left in the batch of the N-th; never more than N    *)
(* records are emitted.                                                    *)
(***************************************************************************)
C3_ExactlyNRecords ==
  /\ [](conf.msg_cnt > 0 => Len(emitted) <= conf.msg_cnt)
  /\ [][conf.msg_cnt > 0 =>
          /\ (DataStep /\ emitted' # emitted)
               => (~conf'.run <=> Len(emitted') = conf.msg_cnt)
          /\ ~conf.run => (emitted' = emitted /\ out' = out /\ stats' = stats)]_vars

\* The limit of 2 stopped the run at the second record, and a Data record of
\* the same batch is still to be handed to consume_cb
C3_Witness ==
  /\ conf.msg_cnt = 2
  /\ Len(emitted) = 2
  /\ stats.rx = 2
  /\ ~conf.run
  /\ pc = "serve"
  /\ batch # <<>>
  /\ Head(batch).err = NO_ERROR

(***************************************************************************)
(* C4.  With exit-on-EOF disabled no PartitionEnd stops the run, and a     *)
(* Data record of a partition that reported PartitionEnd before is         *)
(* emitted like any other (unless its write fails).                        *)
(***************************************************************************)
C4_EofIgnoredWithoutExitEof ==
  [][~conf.exit_eof =>
       /\ EofStep => conf'.run
       /\ (DataStep /\ Head(batch).partition \in reported /\ pc' # "exited")
            => /\ Len(emitted') = Len(emitted) + 1
               /\ emitted'[Len(emitted')].partition = Head(batch).partition
               /\ emitted'[Len(emitted')].offset = Head(batch).offset
               /\ stats'.rx = stats.rx + 1]_vars

\* Every partition of a topic of two reported PartitionEnd, a record that
\* arrived after its partition's PartitionEnd was emitted, the run is on
C4_Witness ==
  /\ ~conf.exit_eof
  /\ partition_cnt >= 2
  /\ reported = PartitionSet
  /\ \E k \in 1..Len(emitted) : emitted[k].after_eof
  /\ conf.run
  /\ pc = "loop"

(***************************************************************************)
(* C5.  Without a fatal condition: a stream is stopped only after the      *)
(* consume loop has ended, the queue is destroyed only when the streams    *)
(* stopped are exactly the streams opened, and the program returns only    *)
(* with the queue destroyed.                                               *)
(***************************************************************************)
C5_StopsWhatItStarted ==
  /\ (stopped # <<>> /\ pc # "exited") => (pc \in {"stop", "done"} /\ ~conf.run)
  /\ rkqu_state = "destroyed"
       => /\ Range(stopped) = Range(opened)
          /\ Len(stopped) = Len(opened)
  /\ pc = "done" => rkqu_state = "destroyed"

\* The run of a topic of two partitions returned after the EOF threshold
\* stopped it, with records emitted
C5_Witness ==
  /\ pc = "done"
  /\ Len(opened) = 2
  /\ conf.exit_eof
  /\ part_eof_cnt = part_eof_thres
  /\ stats.rx >= 1

(***************************************************************************)
(* C6.  A fatal condition ends the process with a non-zero exit code and   *)
(* with every partition stream that was opened closed.                     *)
(***************************************************************************)
C6_FatalExitClosesStreams ==
  pc = "exited" => (exit_status # 0 /\ Range(opened) \subseteq Range(stopped))

\* A fatal condition with two streams open
C6_Witness ==
  /\ pc = "exited"
  /\ Len(opened) = 2
  /\ Len(stopped) = 2

(***************************************************************************)
(* C7.  A message with an error other than end-of-partition, handled while *)
(* the run is on, ends the process with a non-zero exit code in that step: *)
(* nothing is written or emitted, stats.rx and the EOF state keep their    *)
(* values, the message is not dropped, and no step follows the exit.       *)
(***************************************************************************)
C7_StreamErrorAborts ==
  [][/\ pc # "exited"
     /\ (CbStep /\ conf.run /\ Head(batch).err \notin {NO_ERROR, PARTITION_EOF})
          => /\ pc' = "exited"
             /\ exit_status' # 0
             /\ batch' = batch
             /\ out' = out
             /\ emitted' = emitted
             /\ stats' = stats
             /\ part_eof' = part_eof
             /\ part_eof_cnt' = part_eof_cnt]_vars

\* The error of one of two open partitions ended the process while another
\* message was waiting behind it
C7_Witness ==
  /\ pc = "exited"
  /\ Len(opened) = 2
  /\ Len(batch) >= 2
  /\ Head(batch).err = OTHER_ERROR
  /\ batch[2].err = NO_ERROR
  /\ stats.rx >= 1

(***************************************************************************)
(* C8.  A write of a Data record that the sink refuses (the offset field,  *)
(* the key field, the payload or the record delimiter) ends the process in *)
(* that step; the record is not counted in stats.rx and not emitted.       *)
(***************************************************************************)
C8_WriteFailureIsFatal ==
  [][(DataStep /\ sink_refused')
       => (pc' = "exited" /\ stats' = stats /\ emitted' = emitted)]_vars

(***************************************************************************)
(* C9.  When the sink accepts the writes of a Data record, the bytes added *)
(* to the output are, in this order: the decimal offset and the key        *)
(* delimiter (if offsets are printed), the key bytes and the key delimiter *)
(* (if a key delimiter is configured), the payload bytes, the record       *)
(* delimiter.                                                              *)
(***************************************************************************)
RecordBytes(m) ==
  (IF CONF_F_OFFSET \in conf.flags
   THEN Decimal(m.offset) \o <<conf.key_delim>> ELSE <<>>)
  \o (IF CONF_F_KEY_DELIM \in conf.flags
      THEN m.key \o <<conf.key_delim>> ELSE <<>>)
  \o m.payload
  \o <<conf.delim>>

C9_RecordBytesInOrder ==
  [][(DataStep /\ ~sink_refused')
       => out' = out \o RecordBytes(Head(batch))]_vars

(***************************************************************************)
(* The -o option alone: consumer_argparse applied to offset arguments.     *)
(***************************************************************************)
ArgChars == {"-", "+", " ", "0", "1", "5", "a"}

OffsetArgs ==
  {STR_END, STR_BEGINNING, STR_STORED, <<"a", "b", "c">>}
  \cup UNION {[1..n -> ArgChars] : n \in 0..MaxArgLen}

InitArg ==
  /\ InitProgram
  /\ optarg \in OffsetArgs
  /\ conf = Conf(RD_KAFKA_PARTITION_UA, FALSE, 0, {})
  /\ metadata = [err |-> FALSE, topic_cnt |-> 1, topic_err |-> FALSE,
                 partitions |-> <<[id |-> 0, err |-> FALSE]>>]
  /\ topic_msgs = {MSG_PLAIN}
  /\ next_offset = [p \in 0..(MaxParts - 1) |-> 0]
  /\ first_offset = next_offset

NextArg == consumer_argparse

SpecArg == InitArg /\ [][NextArg]_vars

(***************************************************************************)
(* C10.  After the -o option is parsed: "end" gives Latest, "beginning"    *)
(* Earliest, "stored" Stored, an integer string of value n >= 0            *)
(* Absolute(n), one of value -n < 0 TailRelative(n); for any other string  *)
(* the process has ended and consumption does not start.                   *)
(***************************************************************************)
\* An optional sign and one or more digits
IsIntegerString(s) ==
  LET d == IF s # <<>> /\ Head(s) \in {"-", "+"} THEN Tail(s) ELSE s
  IN d # <<>> /\ \A k \in 1..Len(d) : IsDigit(d[k])

\* The directive a value of conf.offset stands for
Directive(offset) ==
  IF offset = RD_KAFKA_OFFSET_END THEN <<"Latest">>
  ELSE IF offset = RD_KAFKA_OFFSET_BEGINNING THEN <<"Earliest">>
  ELSE IF offset = RD_KAFKA_OFFSET_STORED THEN <<"Stored">>
  ELSE IF offset >= 0 THEN <<"Absolute", offset>>
  ELSE IF offset < RD_KAFKA_OFFSET_TAIL_BASE
       THEN <<"TailRelative", RD_KAFKA_OFFSET_TAIL_BASE - offset>>
  ELSE <<"Unknown", offset>>

C10_OffsetResolver ==
  pc # "argparse" =>
    IF optarg = STR_END THEN Directive(conf.offset) = <<"Latest">>
    ELSE IF optarg = STR_BEGINNING THEN Directive(conf.offset) = <<"Earliest">>
    ELSE IF optarg = STR_STORED THEN Directive(conf.offset) = <<"Stored">>
    ELSE IF IsIntegerString(optarg)
         THEN Directive(conf.offset) =
                IF strtoll(optarg) >= 0
                THEN <<"Absolute", strtoll(optarg)>>
                ELSE <<"TailRelative", 0 - strtoll(optarg)>>
    ELSE pc = "exited" /\ exit_status # 0

(***************************************************************************)
(* C11.  The queue delivers the Data records of a partition by increasing  *)
(* offset, first_offset[p] up to next_offset[p] - 1, interleaved in any    *)
(* way with those of the other partitions.  For every partition the        *)
(* offsets of its emitted records, in output order, are a prefix of the    *)
(* offsets delivered for it: they start at the first one delivered and     *)
(* each is the one after the preceding.                                    *)
(***************************************************************************)
\* The records emitted before the k-th that are of the same partition
EmittedBefore(k) ==
  {j \in 1..(k - 1) : emitted[j].partition = emitted[k].partition}

C11_PerPartitionOrder ==
  \A k \in 1..Len(emitted) :
    LET p == emitted[k].partition
    IN /\ emitted[k].offset = first_offset[p] + Cardinality(EmittedBefore(k))
       /\ emitted[k].offset < next_offset[p]

\* Records of two partitions were emitted interleaved: one of partition 1
\* between two of partition 0
C11_Witness ==
  /\ Len(emitted) = 3
  /\ emitted[1].partition = 0
  /\ emitted[2].partition = 1
  /\ emitted[3].partition = 0

(***************************************************************************)
(* C12.  When the metadata query fails or reports no matching topic, a     *)
(* topic-level error or no partition, or when a partition was requested    *)
(* that the PartitionSet does not contain: no stream is ever opened,       *)
(* nothing is written, the consume loop is never reached, and the process  *)
(* ends only by a fatal exit with a non-zero code.                         *)
(***************************************************************************)
ValidationFails ==
  \/ metadata.err
  \/ metadata.topic_cnt = 0
  \/ metadata.topic_err
  \/ partition_cnt = 0
  \/ conf.partition # RD_KAFKA_PARTITION_UA /\ conf.partition \notin PartitionSet

C12_NoStreamBeforeValidation ==
  ValidationFails =>
    /\ opened = <<>>
    /\ out = <<>>
    /\ emitted = <<>>
    /\ pc \in {"argparse", "metadata", "start", "started", "exited"}
    /\ pc = "exited" => exit_status # 0

\* The requested partition is not among the two of the topic: the start
\* loop went over both, opened none, and the process exited
C12_Witness ==
  /\ conf.partition # RD_KAFKA_PARTITION_UA
  /\ partition_cnt = 2
  /\ conf.partition \notin PartitionSet
  /\ i = partition_cnt
  /\ pc = "exited"
  /\ opened = <<>>

(***************************************************************************)
(* C13.  A partition's EOF state, once AtEof (1), stays AtEof in every     *)
(* later state; it takes no value but Active (0) and AtEof (1), so it      *)
(* changes at most once.                                                   *)
(***************************************************************************)
C13_EofStateMonotonic ==
  [][\A p \in DOMAIN part_eof :
       /\ part_eof[p] \in {0, 1}
       /\ part_eof[p] = 1 => (p \in DOMAIN part_eof' /\ part_eof'[p] = 1)]_vars

\* A partition of two is AtEof, its PartitionEnd was handled a second time,
\* a Data record was emitted after it, and the run is on
C13_Witness ==
  /\ conf.exit_eof
  /\ partition_cnt = 2
  /\ conf.run
  /\ eof_repeated
  /\ stats.rx >= 1
  /\ part_eof_cnt = 1
  /\ \E p \in DOMAIN part_eof : part_eof[p] = 1

(***************************************************************************)
(* C14.  part_eof_cnt is the number of partitions whose EOF state is       *)
(* AtEof, and with exit-on-EOF the number of partitions that reported      *)
(* PartitionEnd; it is at most the number of selected partitions (1 with a *)
(* partition selected, the partition count otherwise); once the threshold  *)
(* is set up, a run that is on with exit-on-EOF has a count below it.      *)
(***************************************************************************)
AtEofCount == Cardinality({p \in DOMAIN part_eof : part_eof[p] = 1})

SelectedCount ==
  IF conf.partition # RD_KAFKA_PARTITION_UA THEN 1 ELSE partition_cnt

C14_EofCountBounded ==
  /\ part_eof_cnt = AtEofCount
  /\ conf.exit_eof => part_eof_cnt = Cardinality(reported)
  /\ part_eof_cnt <= SelectedCount
  /\ (conf.exit_eof /\ conf.run /\ pc \in {"start", "started", "loop", "serve"})
       => part_eof_cnt < part_eof_thres

\* Partition 0 of a topic of two was selected, its PartitionEnd was counted
\* and the program returned: the count is 1, below the partition count
C14_Witness ==
  /\ conf.exit_eof
  /\ conf.partition = 0
  /\ partition_cnt = 2
  /\ part_eof_cnt = 1
  /\ part_eof_thres = 1
  /\ pc = "done"

(***************************************************************************)
(* C15.  In every state stats.rx is the number of Data records that were   *)
(* written to the sink completely, every write of the record accepted.     *)
(***************************************************************************)
WholeRecords == {k \in 1..Len(emitted) : emitted[k].whole}

C15_RxCountsWholeRecords == stats.rx = Cardinality(WholeRecords)

(***************************************************************************)
(* C16.  When a partition of the topic carries a partition-level error in  *)
(* the metadata response, the run ends fatally: no stream is opened for    *)
(* that partition, the consume loop is never entered and the exit status   *)
(* is not zero.                                                            *)
(***************************************************************************)
ErrPartitions ==
  {metadata.partitions[k].id :
     k \in {j \in 1..partition_cnt : metadata.partitions[j].err}}

C16_PartitionErrorIsFatal ==
  ErrPartitions # {} =>
    /\ ErrPartitions \cap Range(opened) = {}
    /\ pc \in {"argparse", "metadata", "exited"}
    /\ pc = "exited" => exit_status # 0

(***************************************************************************)
(* C17.  The streams opened are those of the selected partitions, each     *)
(* opened once: never a partition outside the selection, and once the      *)
(* consume loop is entered all of the topic's partitions when none was     *)
(* requested, the requested one alone otherwise.  Every stream was started *)
(* with the offset directive of the configuration and with the queue that  *)
(* was created before the first start.                                     *)
(***************************************************************************)
SelectedSet ==
  IF conf.partition = RD_KAFKA_PARTITION_UA
  THEN PartitionSet
  ELSE {conf.partition} \cap PartitionSet

C17_OpensSelectedSet ==
  /\ Range(opened) \subseteq SelectedSet
  /\ Len(opened) = Cardinality(Range(opened))
  /\ pc \in {"loop", "serve", "stop", "done"} => Range(opened) = SelectedSet
  /\ Len(start_calls) = Len(opened)
  /\ \A k \in 1..Len(start_calls) :
       /\ start_calls[k].partition = opened[k]
       /\ start_calls[k].offset = ParseOffset(optarg)
       /\ start_calls[k].queue = "live"

C17_Witness ==
  /\ pc = "loop"
  /\ conf.partition = RD_KAFKA_PARTITION_UA
  /\ opened = <<1, 0>>
  /\ Len(start_calls) = 2

(***************************************************************************)
(* C18.  As stated: a message of a batch that consume_cb is handed after   *)
(* the run was stopped is still dispatched, a Data record formatted and    *)
(* counted, a PartitionEnd tracked when exit_eof is set.                   *)
(***************************************************************************)
StoppedStep == CbStep /\ ~conf.run

C18_WholeBatchDispatched ==
  [][StoppedStep =>
       LET m == Head(batch)
       IN /\ m.err = NO_ERROR =>
               emitted' # emitted /\ stats'.rx = stats.rx + 1
          /\ (m.err = PARTITION_EOF /\ conf.exit_eof) =>
               part_eof'[m.partition] = 1]_vars

(***************************************************************************)
(* C18, amended.  The run flag is tested at the top of each iteration of   *)
(* the consume loop and at the entry of consume_cb: a message of a batch   *)
(* that consume_cb is handed after the run was stopped is dropped, nothing *)
(* is written, counted or tracked, and no error is raised for it.          *)
(***************************************************************************)
C18_StoppedBatchDropped ==
  [][StoppedStep =>
       /\ batch' = Tail(batch)
       /\ UNCHANGED <<pc, conf, stats, out, emitted, part_eof, part_eof_cnt,
                      reported, exit_status>>]_vars

\* Three records of partition 0 were handed to consume_cb, the limit of one
\* stopped the run at the first and the other two were dropped
C18_Witness ==
  /\ pc = "serve"
  /\ batch = <<>>
  /\ rkqu = <<>>
  /\ ~conf.run
  /\ conf.msg_cnt = 1
  /\ stats.rx = 1
  /\ Len(emitted) = 1
  /\ nsent = 3
  /\ next_offset[0] = first_offset[0] + 3

(***************************************************************************)
(* C20.  A Data record with an empty payload, handled while the sink       *)
(* accepts every write, is written as any other record: its fields and the *)
(* delimiter are appended to the output, stats.rx grows by one and the run *)
(* does not exit.                                                          *)
(***************************************************************************)
C20_EmptyPayloadWritten ==
  [][(DataStep /\ Head(batch).payload = <<>> /\ ~sink_refused') =>
       /\ pc' # "exited"
       /\ stats'.rx = stats.rx + 1
       /\ out' = out \o RecordBytes(Head(batch))]_vars

(***************************************************************************)
(* consumer_main is one sequential thread that keeps running: a call of    *)
(* rd_kafka_consume_callback_queue returns after its timeout at the        *)
(* latest, and no other call of the thread blocks.  Nothing is assumed of  *)
(* the client's streams and of the signals.                                *)
(***************************************************************************)
consumer_main ==
  \/ consumer_argparse
  \/ query_metadata
  \/ consume_start
  \/ consume_start_end
  \/ check_partition
  \/ consume_poll
  \/ consume_cb
  \/ consume_poll_return
  \/ consume_loop_exit
  \/ consume_stop
  \/ queue_destroy

\* Runs with exit_eof on a topic whose metadata is usable, without a record
\* limit: only the PartitionEnds, a signal or a fatal error end them.
InitLive ==
  /\ InitProgram
  /\ optarg = STR_END
  /\ \E partition \in {RD_KAFKA_PARTITION_UA, 0} :
       conf = Conf(partition, TRUE, 0, {})
  /\ \E n \in 1..MaxParts :
       metadata = [err |-> FALSE, topic_cnt |-> 1, topic_err |-> FALSE,
                   partitions |-> [k \in 1..n |-> [id |-> k - 1, err |-> FALSE]]]
  /\ topic_msgs = {MSG_PLAIN}
  /\ next_offset = [p \in 0..(MaxParts - 1) |-> 9]
  /\ first_offset = next_offset

SpecLive == InitLive /\ [][Next]_vars /\ WF_vars(consumer_main)

(***************************************************************************)
(* C19.  With exit_eof set, a run to which the client delivers a           *)
(* PartitionEnd of every selected partition, and in which no fatal error   *)
(* occurs, reaches the return of consumer_main: the run flag is off, every *)
(* stream that was started is stopped and the queue is destroyed.          *)
(***************************************************************************)
\* A PartitionEnd of partition p waits in the shared queue
EofDelivered(p) ==
  \E k \in 1..Len(rkqu) :
    rkqu[k].err = PARTITION_EOF /\ rkqu[k].partition = p

Returned ==
  /\ pc = "done"
  /\ ~conf.run
  /\ Range(stopped) = Range(opened)
  /\ rkqu_state = "destroyed"

C19_EofRunReturns ==
  (\A p \in 0..(MaxParts - 1) : p \in SelectedSet => <>EofDelivered(p))
    => <>(pc = "exited" \/ Returned)

C19_Witness ==
  /\ Returned
  /\ conf.exit_eof
  /\ conf.partition = RD_KAFKA_PARTITION_UA
  /\ partition_cnt = 2
  /\ part_eof_cnt = 2
  /\ stats.rx = 1

=============================================================================
